---- MODULE Spec2Model ----
(***************************************************************************)
(* pyborehole: one Borehole, the Deviation it owns, and the well-path      *)
(* resampling utility of logs.py.                                          *)
(*                                                                         *)
(* A Python value is a record [t, i, s, a]: its type name and, by type, its *)
(* integer, string or array payload, so that isinstance checks, truthiness *)
(* and None are modelled as the interpreter evaluates them.  An attribute   *)
(* holding an object or None is a sequence of at most one element.         *)
(*                                                                         *)
(* Measured depths are integers in units of 1/DepthScale of a depth unit   *)
(* (so a survey can end at a fractional depth).  Positions (northing,      *)
(* easting, tvd) are integers in units of 1/PosScale of a depth unit, which *)
(* makes the minimum-curvature displacements of the modelled orientations  *)
(* exact integers.                                                         *)
(***************************************************************************)
EXTENDS Integers, Sequences, FiniteSets, TLC

VARIABLES borehole,          \* attributes of the Borehole object
          df,                \* Borehole.df, the metadata table (rows in order)
          properties,        \* Borehole.properties
          deviation,         \* Borehole.deviation: None or the Deviation object
          built,             \* arguments of the constructor call that made `deviation`
          result,            \* the last call: operation, arguments, outcome
          coordinates,       \* input of resample_between_well_deviation_points
          spacing,           \* its spacing, a rational [num, den]
          points_resampled,  \* its return value (None until called)
          spline,            \* input of get_points_along_spline: its points in order
          dist,              \* the depths requested of it
          points,            \* its return value (None until called)
          gr,                \* a log's gamma-ray column, the input of calculate_net_to_gross
          cutoff,            \* its cutoff, a rational [num, den]
          net_to_gross,      \* its return value or the error it raised (None until called)
          boreholes,         \* Borehole.boreholes, the class-level list
          installed          \* the optional packages that can be imported

vars == <<borehole, df, properties, deviation, built, result,
          coordinates, spacing, points_resampled, spline, dist, points,
          gr, cutoff, net_to_gross, boreholes, installed>>

boreholeVars == <<borehole, df, properties, deviation, built>>
resampleVars == <<coordinates, spacing, points_resampled>>
splineVars == <<spline, dist, points>>
ngVars == <<gr, cutoff, net_to_gross>>
logsVars == <<resampleVars, splineVars, ngVars>>
classVars == <<boreholes, installed>>
otherVars == <<logsVars, classVars>>

---------------------------------------------------------------------------
(* Bounds of the model *)

MaxDepth == 5        \* deepest station of a survey, in 1/DepthScale depth units
MaxStations == 2     \* stations of a survey
MaxStep == 2         \* resampling step
DepthScale == 2      \* measured depths are multiples of 1/DepthScale
MaxDfRows == 23      \* rows Borehole.df may grow to by add_deviation
MaxAnchoredRows == 26 \* rows Borehole.df may grow to by add_origin_to_desurveying
MaxMethodRows == 15      \* rows of Borehole.df up to which update_df is called beside the other methods
MaxBoreholes == 5    \* objects of the class Borehole
MaxPoints == 3       \* waypoints handed to the resampling utility
MaxCoord == 3        \* waypoint coordinates range over 0..MaxCoord
MaxSpacingNum == 3   \* spacing is MaxSpacingNum/2 at most
MaxArc == 3          \* longest arc length of a spline
MaxSplinePoints == 3 \* points of a spline
MaxSamples == 3      \* samples of a well log
MaxGR == 2           \* gamma-ray readings range over 0..MaxGR
MaxCutoffNum == 3    \* cutoff is MaxCutoffNum/2 at most
MaxDists == 2        \* depths requested along a spline

---------------------------------------------------------------------------
(* Python values *)

PyValue(t, i, s, a) == [t |-> t, i |-> i, s |-> s, a |-> a]
PyNone == PyValue("NoneType", 0, "", <<>>)
PyInt(n) == PyValue("int", n, "", <<>>)
\* a float, its value n / DepthScale
PyFloat(n) == PyValue("float", n, "", <<>>)
PyStr(s) == PyValue("str", 0, s, <<>>)
PyBool(b) == PyValue("bool", IF b THEN 1 ELSE 0, "", <<>>)
PyTuple(a) == PyValue("tuple", 0, "", a)
PyList(a) == PyValue("list", 0, "", a)
PyArray(a) == PyValue("ndarray", 0, "", a)
\* a pyproj CRS object made from the identifier s
PyCRS(s) == PyValue("CRS", 0, s, <<>>)

\* An attribute that holds None or an object
NoObject == <<>>
Object(o) == <<o>>

IsNone(a) == a.t = "NoneType"

\* bool(a) as `if a:` and `not a` evaluate it
Truthy(a) ==
    CASE a.t = "NoneType" -> FALSE
      [] a.t \in {"int", "bool"} -> a.i # 0
      [] a.t = "str" -> a.s # ""
      [] a.t \in {"tuple", "list"} -> a.a # <<>>
      [] OTHER -> TRUE

\* isinstance(a, (float, int, type(None)))
IsNumberOrNone(a) == a.t \in {"int", "NoneType"}

---------------------------------------------------------------------------
(* Directional surveys and the desurveying done by the Deviation constructor *)

\* The (inclination, azimuth) pairs of the modelled stations, in degrees:
\* vertical, horizontal due north, horizontal due east.
Orientations == {<<0, 0>>, <<90, 0>>, <<90, 90>>}

Stations == {[md |-> d, inc |-> o[1], azi |-> o[2]] : d \in 0..MaxDepth, o \in Orientations}

\* Surveys: depth zero first, measured depth strictly increasing.
Surveys ==
    UNION {{s \in [1..n -> Stations] :
                /\ s[1].md = 0
                /\ \A i \in 1..(n - 1) : s[i].md < s[i + 1].md} : n \in 1..MaxStations}

\* The surveys the borehole's whole life is explored with: vertical at the
\* surface, one more station at the deepest depth
StartVerticalSurveys ==
    {s \in Surveys : Len(s) = 2 /\ s[1].inc = 0 /\ s[2].md = MaxDepth}

\* The vertical surveys among them
VerticalSurveys == {s \in StartVerticalSurveys : s[2].inc = 0}

Sin(deg) == CASE deg = 0 -> 0 [] deg = 90 -> 1 [] deg = -90 -> -1
Cos(deg) == CASE deg = 0 -> 1 [] deg = 90 -> 0 [] deg = -90 -> 0

\* Unit direction vector <<north, east, down>> of a station
Unit(st) == <<Sin(st.inc) * Cos(st.azi), Sin(st.inc) * Sin(st.azi), Cos(st.inc)>>

\* cos of the dogleg angle between two stations (spherical law of cosines)
CosDogleg(a, b) ==
    Cos(a.inc) * Cos(b.inc) + Sin(a.inc) * Sin(b.inc) * Cos(b.azi - a.azi)

\* the factor of a 90 degree dogleg, whatever the dogleg
RatioFactorCurved(a, b) == 1273

\* 1000 * ratio factor 2/beta * tan(beta/2): 1 for a zero dogleg, 4/pi (1.273)
\* for the 90 degree dogleg, the only other angle between modelled stations.
RatioFactor1000(a, b) == IF CosDogleg(a, b) = 1 THEN 1000 ELSE 1273

\* Position units per depth unit
PosScale == 2000 * DepthScale

\* Displacement, in position units, after running `len` (1/DepthScale units)
\* along the interval from station a to station b:
\* len/2 * RF * (Unit(a) + Unit(b)).
Displacement(a, b, len) ==
    [c \in 1..3 |-> len * RatioFactor1000(a, b) * (Unit(a)[c] + Unit(b)[c])]

RECURSIVE StationPosition(_, _)
\* Cumulative position of station k of a survey (minimum_curvature())
StationPosition(survey, k) ==
    IF k = 1 THEN [c \in 1..3 |-> 0]
    ELSE LET p == StationPosition(survey, k - 1)
             d == Displacement(survey[k - 1], survey[k], survey[k].md - survey[k - 1].md)
         IN [c \in 1..3 |-> p[c] + d[c]]

\* Position at measured depth d (1/DepthScale units), interpolated inside the
\* first interval that ends at or below d, the last interval if none does
\* (resample())
PositionAt(survey, d) ==
    IF Len(survey) = 1 THEN [c \in 1..3 |-> 0]
    ELSE LET n == Len(survey) - 1
             i == CHOOSE j \in 1..n :
                      /\ d <= survey[j + 1].md \/ j = n
                      /\ \A k \in 1..(j - 1) : d > survey[k + 1].md
             p == StationPosition(survey, i)
             e == Displacement(survey[i], survey[i + 1], d - survey[i].md)
         IN [c \in 1..3 |-> p[c] + e[c]]

RECURSIVE Range(_, _, _)
\* list(range(start, stop, step)) for step >= 1
Range(start, stop, step) ==
    IF start >= stop THEN <<>> ELSE <<start>> \o Range(start + step, stop, step)

\* int(dev.md[-1]) for a last measured depth of lastMd/DepthScale
IntOfDepth(lastMd) == lastMd \div DepthScale

\* A grid that runs one past int(md[-1]): range(0, int(md[-1]) + 2, step)
ResampleDepthsPastEnd(survey, step) ==
    Range(0, IntOfDepth(survey[Len(survey)].md) + 2, step)

\* list(range(0, int(dev.md[-1]) + 1, step)), in depth units
ResampleDepths(survey, step) ==
    Range(0, IntOfDepth(survey[Len(survey)].md) + 1, step)

\* pos = dev.minimum_curvature().resample(depths): one position per depth
Resampled(survey, step) ==
    LET depths == ResampleDepths(survey, step)
    IN [i \in 1..Len(depths) |-> PositionAt(survey, depths[i] * DepthScale)]

\* an array sum that loses the last sample
ArrayPlusShort(a, n) == [i \in 1..(Len(a) - 1) |-> a[i] + n * PosScale]
\* numpy array + scalar, the scalar given in depth units
ArrayPlus(a, n) == [i \in 1..Len(a) |-> a[i] + n * PosScale]
\* scalar - numpy array
ScalarMinus(n, a) == [i \in 1..Len(a) |-> n * PosScale - a[i]]

\* borehole.crs == 'EPSG:4326': string equality for a str, CRS.__eq__ (which
\* parses the string and compares the systems) for a pyproj CRS object
EqualsEPSG4326(crs) == crs.t \in {"str", "CRS"} /\ crs.s = "EPSG:4326"

\* Deviation.__init__: the outcome and, when it returns, the object
DeviationInit(b, survey, step, add_origin) ==
    LET pos == Resampled(survey, step)
        tvd == [i \in 1..Len(pos) |-> pos[i][3]]
        north == [i \in 1..Len(pos) |-> pos[i][1]]
        east == [i \in 1..Len(pos) |-> pos[i][2]]
        northing_rel == IF add_origin THEN ArrayPlus(north, b.y.i) ELSE north
        easting_rel == IF add_origin THEN ArrayPlus(east, b.x.i) ELSE east
    IN IF add_origin /\ EqualsEPSG4326(b.crs)
         THEN [outcome |-> "ValueError", obj |-> NoObject]
       ELSE IF add_origin /\ (IsNone(b.y) \/ IsNone(b.x))
         THEN [outcome |-> "TypeError", obj |-> NoObject]
       ELSE [outcome |-> "ok",
             obj |-> Object([survey |-> survey,
                             tvd |-> tvd,
                             northing_rel |-> northing_rel,
                             easting_rel |-> easting_rel,
                             desurveyed_df |-> ("True Vertical Depth" :> tvd)
                                               @@ ("Northing_rel" :> northing_rel)
                                               @@ ("Easting_rel" :> easting_rel),
                             crs |-> b.crs,
                             northing |-> PyNone,
                             easting |-> PyNone,
                             tvdss |-> PyNone])]

---------------------------------------------------------------------------
(* The Borehole object *)

\* Rows of a table: [label, value] in index order
Row(label, value) == [label |-> label, value |-> value]

\* table.loc[label, 'Value'] = value: every row with that label is set; a
\* label the index does not hold is appended
SetLoc(table, label, value) ==
    IF \E i \in 1..Len(table) : table[i].label = label
    THEN [i \in 1..Len(table) |->
             IF table[i].label = label THEN Row(label, value) ELSE table[i]]
    ELSE Append(table, Row(label, value))

DataFrame(rows) == [t |-> "DataFrame", rows |-> rows]
NoDataFrame == [t |-> "NoneType", rows |-> <<>>]

\* Borehole.create_df, for the attributes the model holds
create_df(b) ==
    DataFrame(<<Row("ID", b.borehole_id),
                Row("Location", b.location),
                Row("X", b.x),
                Row("Y", b.y),
                Row("Coordinate Reference System", b.crs),
                Row("Altitude above sea level", b.altitude_above_sea_level),
                Row("Measured Depth", b.md),
                Row("True Vertical Depth", b.tvd),
                Row("True Vertical Depth Sub Sea", b.tvdss),
                Row("Litholog", PyBool(b.has_litholog)),
                Row("Well Tops", PyBool(b.has_well_tops)),
                Row("Well Deviation", PyBool(b.has_deviation)),
                Row("Well Logs", PyBool(b.has_logs)),
                Row("Well Design", PyBool(b.has_well_design))>>)

\* Borehole.create_properties_df, for the attributes the model holds
create_properties_df(b) ==
    DataFrame(<<Row("ID", PyBool(b.has_borehole_id)),
                Row("Location", PyBool(b.has_location)),
                Row("X", PyBool(b.has_x)),
                Row("Y", PyBool(b.has_y)),
                Row("Coordinate Reference System", PyBool(b.has_crs)),
                Row("Altitude above sea level", PyBool(b.has_altitude_above_sea_level)),
                Row("Measured Depth", PyBool(b.has_md)),
                Row("True Vertical Depth", PyBool(b.has_tvd)),
                Row("True Vertical Depth Sub Sea", b.has_tvdss),
                Row("Litholog", PyBool(b.has_litholog)),
                Row("Well Tops", PyBool(b.has_well_tops)),
                Row("Well Deviation", PyBool(b.has_deviation)),
                Row("Well Logs", PyBool(b.has_logs)),
                Row("Well Design", PyBool(b.has_well_design))>>)

\* Borehole.__init__: every attribute None, no components, no properties, no
\* tables.  has_tvdss is kept as the Python value it is (None until
\* init_properties assigns it); the other has_ flags of attributes, None in
\* the code until then, are FALSE here
NewBorehole ==
    [has_properties |-> FALSE,
     location |-> PyNone, has_location |-> FALSE,
     x |-> PyNone, y |-> PyNone, crs |-> PyNone,
     altitude_above_sea_level |-> PyNone,
     md |-> PyNone, tvd |-> PyNone, tvdss |-> PyNone,
     borehole_id |-> PyNone,
     has_x |-> FALSE, has_y |-> FALSE, has_crs |-> FALSE,
     has_altitude_above_sea_level |-> FALSE,
     has_md |-> FALSE, has_tvd |-> FALSE, has_tvdss |-> PyNone,
     has_borehole_id |-> FALSE,
     logs |-> PyNone, well_tops |-> PyNone, litholog |-> PyNone, well_design |-> PyNone,
     has_deviation |-> FALSE, has_logs |-> FALSE, has_well_tops |-> FALSE,
     has_litholog |-> FALSE, has_well_design |-> FALSE,
     gdf |-> PyNone]

\* Arguments of init_properties
Locations == {PyNone, PyTuple(<<1, 2>>)}
CRSInputs == {PyNone, PyStr("EPSG:4326"), PyStr("epsg:4326"), PyStr("EPSG:4258"),
              PyStr("EPSG:25832"), PyCRS("EPSG:4326")}
Altitudes == {PyNone, PyInt(3)}
Tvds == {PyNone, PyInt(4)}

\* shapely's Point(location)
PyPoint(location) == PyValue("Point", 0, "", location.a)

\* CRS.from_user_input(crs): the identifiers pyproj knows, among those of
\* the model; for any other string it raises CRSError
KnownCRS == {"EPSG:4326", "epsg:4326", "EPSG:4258", "EPSG:25832"}
CRSFromUserInput(crs) ==
    IF crs.t = "CRS" \/ (crs.t = "str" /\ crs.s \in KnownCRS) THEN "ok" ELSE "CRSError"

\* Borehole.init_properties(location, crs, altitude_above_sea_level, tvd),
\* the other arguments left at None.  The types are checked first; location,
\* x, y and crs are assigned before CRS.from_user_input is called, the rest
\* after it.  tvdss and has_tvdss are assigned when tvd and the altitude are
\* both given or when tvd is not given; with tvd given and no altitude
\* neither is assigned.  gdf is not assigned at all
InitPropertiesTvd(location, crs, altitude, tvd) ==
    LET located == [borehole EXCEPT
                 !.location = IF Truthy(location) THEN PyPoint(location) ELSE location,
                 !.has_location = Truthy(location),
                 !.x = IF Truthy(location) THEN PyInt(location.a[1]) ELSE PyNone,
                 !.y = IF Truthy(location) THEN PyInt(location.a[2]) ELSE PyNone,
                 !.has_x = Truthy(location), !.has_y = Truthy(location),
                 !.crs = crs]
        b == [located EXCEPT
                 !.has_properties = TRUE,
                 !.altitude_above_sea_level = altitude,
                 !.md = PyNone,
                 !.tvd = tvd,
                 !.tvdss = IF Truthy(tvd)
                           THEN IF Truthy(altitude) THEN PyInt(tvd.i - altitude.i) ELSE @
                           ELSE PyNone,
                 !.has_tvdss = IF Truthy(tvd)
                               THEN IF Truthy(altitude) THEN PyBool(TRUE) ELSE @
                               ELSE PyBool(FALSE),
                 !.borehole_id = PyNone,
                 !.has_crs = Truthy(crs),
                 !.has_altitude_above_sea_level = Truthy(altitude),
                 !.has_md = FALSE, !.has_tvd = Truthy(tvd),
                 !.has_borehole_id = FALSE,
                 !.logs = PyNone, !.well_tops = PyNone, !.litholog = PyNone,
                 !.well_design = PyNone,
                 !.has_deviation = FALSE, !.has_logs = FALSE, !.has_well_tops = FALSE,
                 !.has_litholog = FALSE, !.has_well_design = FALSE]
    IN /\ UNCHANGED otherVars
       /\ IF \/ location.t \notin {"tuple", "NoneType"}
             \/ crs.t \notin {"str", "CRS", "NoneType"}
             \/ altitude.t \notin {"int", "float", "NoneType"}
          THEN /\ result' = [op |-> "init_properties", outcome |-> "TypeError"]
               /\ UNCHANGED boreholeVars
          ELSE IF Truthy(crs) /\ CRSFromUserInput(crs) # "ok"
          THEN /\ result' = [op |-> "init_properties", outcome |-> "CRSError"]
               /\ borehole' = located
               /\ UNCHANGED <<df, properties, deviation, built>>
          ELSE /\ borehole' = b
               /\ deviation' = NoObject
               /\ built' = NoObject
               /\ df' = create_df(b)
               /\ properties' = create_properties_df(b)
               /\ result' = [op |-> "init_properties", outcome |-> "ok"]

\* Borehole.init_properties(location, crs, altitude_above_sea_level), tvd
\* left at None
InitProperties(location, crs, altitude) == InitPropertiesTvd(location, crs, altitude, PyNone)

\* Borehole.update_df: the rows of data_dict are concatenated below the table
update_df(table, data_dict) == DataFrame(table.rows \o data_dict)

\* Deviation.data_dict, the rows add_deviation hands to update_df
DeviationDataDict(d) ==
    <<Row("Measured Depth", PyArray([i \in 1..Len(d.survey) |-> d.survey[i].md])),
      Row("Inclination", PyArray([i \in 1..Len(d.survey) |-> d.survey[i].inc])),
      Row("Azimuth", PyArray([i \in 1..Len(d.survey) |-> d.survey[i].azi])),
      Row("True Vertical Depth", PyArray(d.tvd)),
      Row("Northing_rel", PyArray(d.northing_rel)),
      Row("Easting_rel", PyArray(d.easting_rel))>>

\* add_deviation with the attributes set before the constructor has returned
AddDeviationMadeEarly(call, made) ==
    /\ UNCHANGED otherVars
    /\ (borehole.has_properties /\ made.outcome = "ok") => Len(df.rows) + 6 <= MaxDfRows
    /\ IF ~borehole.has_properties
       THEN /\ result' = [op |-> "add_deviation", outcome |-> "ValueError", ctor |-> call]
            /\ UNCHANGED boreholeVars
       ELSE IF made.outcome # "ok"
       THEN /\ result' = [op |-> "add_deviation", outcome |-> made.outcome, ctor |-> call]
            /\ borehole' = [borehole EXCEPT !.has_deviation = TRUE]
            /\ df' = DataFrame(SetLoc(df.rows, "Well Deviation", PyBool(TRUE)))
            /\ properties' = DataFrame(SetLoc(properties.rows, "Well Deviation", PyBool(TRUE)))
            /\ UNCHANGED <<deviation, built>>
       ELSE /\ deviation' = made.obj
            /\ built' = Object(call)
            /\ borehole' = [borehole EXCEPT !.has_deviation = TRUE]
            /\ df' = update_df(DataFrame(SetLoc(df.rows, "Well Deviation", PyBool(TRUE))),
                               DeviationDataDict(made.obj[1]))
            /\ properties' = DataFrame(SetLoc(properties.rows, "Well Deviation", PyBool(TRUE)))
            /\ result' = [op |-> "add_deviation", outcome |-> "ok", ctor |-> call]

\* Borehole.add_deviation, given the constructor call and what it came to
AddDeviationMade(call, made) ==
    /\ UNCHANGED otherVars
    /\ (borehole.has_properties /\ made.outcome = "ok") => Len(df.rows) + 6 <= MaxDfRows
    /\ IF ~borehole.has_properties
       THEN /\ result' = [op |-> "add_deviation", outcome |-> "ValueError", ctor |-> call]
            /\ UNCHANGED boreholeVars
       ELSE IF made.outcome # "ok"
       THEN /\ result' = [op |-> "add_deviation", outcome |-> made.outcome, ctor |-> call]
            /\ UNCHANGED boreholeVars
       ELSE /\ deviation' = made.obj
            /\ built' = Object(call)
            /\ borehole' = [borehole EXCEPT !.has_deviation = TRUE]
            /\ df' = update_df(DataFrame(SetLoc(df.rows, "Well Deviation", PyBool(TRUE))),
                               DeviationDataDict(made.obj[1]))
            /\ properties' = DataFrame(SetLoc(properties.rows, "Well Deviation", PyBool(TRUE)))
            /\ result' = [op |-> "add_deviation", outcome |-> "ok", ctor |-> call]

\* Borehole.add_deviation(path=<survey>, step, add_origin), step a positive int
AddDeviation(survey, step, add_origin) ==
    AddDeviationMade([survey |-> survey, step |-> step, add_origin |-> add_origin],
                     DeviationInit(borehole, survey, step, add_origin))

\* Values handed as step: ints below, at and above zero, floats (0.5 and 2.5
\* for DepthScale = 2), a list
StepInputs ==
    {PyInt(-1), PyInt(0), PyInt(1), PyInt(2), PyFloat(1), PyFloat(5), PyList(<<5>>)}

\* Values handed as md_column: the column of the survey, one it does not have
MdColumns == {"MD", "Measured"}

\* What wellpathpy's resample may do with depths=[]: the code does not decide it
EmptyResampleOutcomes == {"ok", "ValueError"}

\* Deviation.__init__ for any value of step and of md_column: the results it
\* can come to.  The columns named must be in the DataFrame;
\* isinstance(step, (float, int)) is the only check of step; range() then
\* raises TypeError for a float and ValueError for 0, and is empty for a
\* negative int
DeviationInitStep(b, survey, step, md_column, add_origin) ==
    IF step.t \notin {"int", "float"} THEN {[outcome |-> "TypeError", obj |-> NoObject]}
    ELSE IF md_column # "MD" THEN {[outcome |-> "ValueError", obj |-> NoObject]}
    ELSE IF step.t = "float" THEN {[outcome |-> "TypeError", obj |-> NoObject]}
    ELSE IF step.i = 0 THEN {[outcome |-> "ValueError", obj |-> NoObject]}
    ELSE IF step.i > 0 THEN {DeviationInit(b, survey, step.i, add_origin)}
    ELSE {IF lib # "ok" THEN [outcome |-> lib, obj |-> NoObject]
          ELSE IF add_origin /\ EqualsEPSG4326(b.crs)
            THEN [outcome |-> "ValueError", obj |-> NoObject]
          ELSE IF add_origin /\ (IsNone(b.y) \/ IsNone(b.x))
            THEN [outcome |-> "TypeError", obj |-> NoObject]
          ELSE [outcome |-> "ok",
                obj |-> Object([survey |-> survey,
                                tvd |-> <<>>,
                                northing_rel |-> <<>>,
                                easting_rel |-> <<>>,
                                desurveyed_df |-> ("True Vertical Depth" :> <<>>)
                                                  @@ ("Northing_rel" :> <<>>)
                                                  @@ ("Easting_rel" :> <<>>),
                                crs |-> b.crs,
                                northing |-> PyNone,
                                easting |-> PyNone,
                                tvdss |-> PyNone])] : lib \in EmptyResampleOutcomes}

\* The optional packages, imported inside the operations that use them
Packages == {"wellpathpy", "pyvista", "lasio"}

\* Deviation.__init__ where wellpathpy may be missing: the argument checks
\* come first; a failed import is caught and nothing is raised, so the first
\* use of the name wp raises UnboundLocalError, a NameError
DeviationInitImport(b, survey, step, md_column, add_origin, packages) ==
    IF step.t \notin {"int", "float"} THEN {[outcome |-> "TypeError", obj |-> NoObject]}
    ELSE IF md_column # "MD" THEN {[outcome |-> "ValueError", obj |-> NoObject]}
    ELSE IF "wellpathpy" \notin packages THEN {[outcome |-> "NameError", obj |-> NoObject]}
    ELSE DeviationInitStep(b, survey, step, md_column, add_origin)

\* Borehole.add_deviation(path=<survey>, step, md_column, add_origin), step
\* any value
AddDeviationStep(survey, step, md_column, add_origin) ==
    \E made \in DeviationInitImport(borehole, survey, step, md_column, add_origin,
                                     installed) :
        AddDeviationMade([survey |-> survey, step |-> step, md_column |-> md_column,
                          add_origin |-> add_origin], made)

---------------------------------------------------------------------------
(* Anchoring and the absolute-frame consumers *)

\* Arguments x, y, z of add_origin_to_desurveying: omitted, zero, a number, a list
AnchorArgs ==
    {<<PyNone, PyNone, PyNone>>, <<PyInt(0), PyInt(0), PyInt(0)>>,
     <<PyInt(5), PyInt(7), PyInt(9)>>,
     <<PyInt(0), PyNone, PyNone>>, <<PyNone, PyInt(0), PyNone>>, <<PyNone, PyNone, PyInt(0)>>,
     <<PyInt(5), PyNone, PyNone>>, <<PyNone, PyInt(7), PyNone>>, <<PyInt(5), PyInt(7), PyNone>>,
     <<PyList(<<5>>), PyNone, PyNone>>, <<PyNone, PyList(<<5>>), PyNone>>,
     <<PyNone, PyNone, PyList(<<5>>)>>}

\* `if not v: v = stored`
OrStored(v, stored) == IF ~Truthy(v) THEN stored ELSE v

\* desurveyed_df[column] = values
SetColumn(table, column, values) == (column :> values) @@ table

\* Deviation.add_origin_to_desurveying(x, y, z) on the borehole's Deviation
AddOriginToDesurveying(x, y, z) ==
    LET d == deviation[1]
        args == [x |-> x, y |-> y, z |-> z]
        x1 == OrStored(x, borehole.x)
        y1 == OrStored(y, borehole.y)
        z1 == OrStored(z, borehole.altitude_above_sea_level)
        t1 == SetColumn(d.desurveyed_df, "Northing", ArrayPlus(d.desurveyed_df["Northing_rel"], y1.i))
        t2 == SetColumn(t1, "Easting", ArrayPlus(t1["Easting_rel"], x1.i))
        t3 == SetColumn(t2, "True Vertical Depth Below Sea Level",
                        ScalarMinus(z1.i, t2["True Vertical Depth"]))
        data_dict == <<Row("Northing", PyArray(t3["Northing"])),
                       Row("Easting", PyArray(t3["Easting"])),
                       Row("True Vertical Depth Below Sea Level",
                           PyArray(t3["True Vertical Depth Below Sea Level"]))>>
        Raise(err, table) ==
            /\ result' = [op |-> "add_origin_to_desurveying", outcome |-> err, args |-> args]
            /\ deviation' = Object([d EXCEPT !.desurveyed_df = table])
            /\ UNCHANGED <<borehole, df, properties, built>>
    IN /\ deviation # NoObject
       /\ UNCHANGED otherVars
       /\ IF EqualsEPSG4326(d.crs) THEN Raise("ValueError", d.desurveyed_df)
          ELSE IF ~IsNumberOrNone(x) \/ ~IsNumberOrNone(y) \/ ~IsNumberOrNone(z)
            THEN Raise("TypeError", d.desurveyed_df)
          ELSE IF IsNone(y1) THEN Raise("TypeError", d.desurveyed_df)
          ELSE IF IsNone(x1) THEN Raise("TypeError", t1)
          ELSE IF IsNone(z1) THEN Raise("TypeError", t2)
          ELSE IF ~borehole.has_properties THEN Raise("ValueError", t3)
          ELSE /\ Len(df.rows) + 3 <= MaxAnchoredRows
               /\ df' = update_df(df, data_dict)
               /\ deviation' = Object([d EXCEPT
                      !.desurveyed_df = t3,
                      !.northing = PyArray(t3["Northing"]),
                      !.easting = PyArray(t3["Easting"]),
                      !.tvdss = PyArray(t3["True Vertical Depth Below Sea Level"])])
               /\ result' = [op |-> "add_origin_to_desurveying", outcome |-> "ok", args |-> args]
               /\ UNCHANGED <<borehole, properties, built>>

\* What Axes3D.plot may do with None for xs and ys: the code does not decide it
PlotLibraryOutcomes == {"ok", "TypeError", "ValueError"}

\* Deviation.plot_deviation_3d(relative=relative)
PlotDeviation3d(relative) ==
    /\ deviation # NoObject
    /\ \E lib \in PlotLibraryOutcomes :
          result' = [op |-> "plot_deviation_3d", relative |-> relative,
                     outcome |-> IF relative \/ ~IsNone(deviation[1].easting)
                                 THEN "ok" ELSE lib]
    /\ UNCHANGED <<boreholeVars, otherVars>>

\* Deviation.get_borehole_tube(relative=relative), x = y = z = 0.  The
\* coordinates are added before lines_from_points is called; with pyvista
\* missing that function's pv.PolyData() raises NameError
GetBoreholeTube(relative) ==
    /\ deviation # NoObject
    /\ result' = [op |-> "get_borehole_tube", relative |-> relative,
                  outcome |-> IF ~relative /\ IsNone(deviation[1].easting) THEN "TypeError"
                              ELSE IF "pyvista" \notin installed THEN "NameError"
                              ELSE "ok"]
    /\ UNCHANGED <<boreholeVars, otherVars>>

---------------------------------------------------------------------------
(* The other methods of the Borehole that need initialised properties *)

\* What a constructor that reads a file can come to, and what geopandas can
\* come to when it builds the GeoDataFrame: the repository's code decides
\* neither
FileOutcomes == {"ok", "FileNotFoundError"}
GeoOutcomes == {"ok", "LibraryError"}

\* A dict of one entry, and a list where a dict is expected
PyDict(a) == PyValue("dict", 0, "", a)
DataDicts == {PyDict(<<7>>), PyList(<<7>>)}

\* Borehole.update_df(data_dict)
UpdateDf(data_dict) ==
    /\ UNCHANGED otherVars
    /\ UNCHANGED <<borehole, properties, deviation, built>>
    /\ (borehole.has_properties /\ data_dict.t = "dict") =>
           Len(df.rows) + Len(data_dict.a) <= MaxDfRows
    /\ IF ~borehole.has_properties
       THEN /\ result' = [op |-> "update_df", outcome |-> "ValueError", arg |-> data_dict]
            /\ UNCHANGED df
       ELSE IF data_dict.t # "dict"
       THEN /\ result' = [op |-> "update_df", outcome |-> "TypeError", arg |-> data_dict]
            /\ UNCHANGED df
       ELSE /\ df' = update_df(df, [i \in 1..Len(data_dict.a) |->
                                       Row("Operator", PyInt(data_dict.a[i]))])
            /\ result' = [op |-> "update_df", outcome |-> "ok", arg |-> data_dict]

\* The attributes update_value is called with, and df_indices_dict: the
\* label of the attribute's row, "" where the dict has no such key
UpdateAttributes == {"x", "altitude_above_sea_level", "tvd", "tvdss", "crs", "borehole_id"}
df_indices_dict(attribute) ==
    CASE attribute = "x" -> "X"
      [] attribute = "y" -> "Y"
      [] attribute = "location" -> "Location"
      [] attribute = "crs" -> "Coordinate Reference System"
      [] attribute = "altitude_above_sea_level" -> "Altitude above sea level"
      [] attribute = "md" -> "Measured Depth"
      [] attribute = "tvd" -> "True Vertical Depth"
      [] attribute = "tvdss" -> "True Vertical Depth Sub Sea"
      [] OTHER -> ""

\* The values update_value is called with: a number for the numeric
\* attributes, a string for crs and for borehole_id, and a list
UpdateValues(attribute) ==
    CASE attribute = "crs" -> {PyStr("EPSG:25832"), PyList(<<5>>)}
      [] attribute = "borehole_id" -> {PyStr("DABO123456"), PyList(<<5>>)}
      [] OTHER -> {PyInt(5), PyList(<<5>>)}

\* vars(self)[attribute] = value; vars(self)['has_' + attribute] = True
SetAttribute(b, attribute, value) ==
    CASE attribute = "x" -> [b EXCEPT !.x = value, !.has_x = TRUE]
      [] attribute = "altitude_above_sea_level" ->
            [b EXCEPT !.altitude_above_sea_level = value,
                      !.has_altitude_above_sea_level = TRUE]
      [] attribute = "tvd" -> [b EXCEPT !.tvd = value, !.has_tvd = TRUE]
      [] attribute = "tvdss" -> [b EXCEPT !.tvdss = value, !.has_tvdss = PyBool(TRUE)]
      [] attribute = "crs" -> [b EXCEPT !.crs = value, !.has_crs = TRUE]
      [] attribute = "location" -> [b EXCEPT !.location = value, !.has_location = TRUE]
      [] attribute = "borehole_id" ->
            [b EXCEPT !.borehole_id = value, !.has_borehole_id = TRUE]

\* self.deviation.crs = self.crs, done when the borehole has a Deviation
SyncDeviationCrsNever(dev, has_deviation, crs) == dev

SyncDeviationCrs(dev, has_deviation, crs) ==
    IF has_deviation THEN Object([dev[1] EXCEPT !.crs = crs]) ELSE dev

\* Borehole.update_value(attribute, value, crs), transform_coordinates left
\* at None.  The attribute is assigned first.  For 'location' the Point, x,
\* y and their rows follow, then crs, when given, is type-checked, assigned
\* and handed to CRS.from_user_input; for 'crs' the value is handed to
\* CRS.from_user_input.  Only then is the attribute's row looked up in
\* df_indices_dict, so an error raised on the way leaves what was assigned.
\* The row 'Coordinate Reference System PyProj' is not part of the model's
\* tables
UpdateValueFull(attribute, value, crs) ==
    LET Raise(err, b, table, flags) ==
            /\ result' = [op |-> "update_value", outcome |-> err,
                          attribute |-> attribute, arg |-> value]
            /\ borehole' = b
            /\ df' = table
            /\ properties' = flags
            /\ UNCHANGED deviation
        Finish(b, table, flags, dev) ==
            IF df_indices_dict(attribute) = ""
            THEN /\ Raise("KeyError", b, table, flags)
            ELSE /\ borehole' = b
                 /\ deviation' = dev
                 /\ df' = DataFrame(SetLoc(table.rows, df_indices_dict(attribute),
                                           b[attribute]))
                 /\ properties' = DataFrame(SetLoc(flags.rows, df_indices_dict(attribute),
                                                   PyBool(TRUE)))
                 /\ result' = [op |-> "update_value", outcome |-> "ok",
                               attribute |-> attribute, arg |-> value]
        WithCRS(b, table, flags, new) ==
            Finish([b EXCEPT !.crs = new, !.has_crs = TRUE],
                   DataFrame(SetLoc(table.rows, "Coordinate Reference System", new)),
                   DataFrame(SetLoc(flags.rows, "Coordinate Reference System", PyBool(TRUE))),
                   SyncDeviationCrs(deviation, borehole.has_deviation, new))
        b1 == SetAttribute(borehole, attribute, value)
        b2 == [b1 EXCEPT !.location = PyPoint(value), !.has_location = TRUE,
                         !.x = PyInt(value.a[1]), !.y = PyInt(value.a[2])]
        df2 == DataFrame(SetLoc(SetLoc(df.rows, "X", b2.x), "Y", b2.y))
        properties2 == DataFrame(SetLoc(SetLoc(properties.rows, "X", PyBool(TRUE)),
                                        "Y", PyBool(TRUE)))
    IN /\ UNCHANGED otherVars
       /\ UNCHANGED built
       /\ IF ~borehole.has_properties
          THEN Raise("ValueError", borehole, df, properties)
          ELSE IF value.t \notin {"int", "float", "str", "tuple"}
          THEN Raise("TypeError", borehole, df, properties)
          ELSE IF attribute = "location"
          THEN IF ~Truthy(crs) THEN Finish(b2, df2, properties2, deviation)
               ELSE IF crs.t \notin {"str", "CRS"}
               THEN Raise("TypeError", b2, df2, properties2)
               ELSE IF CRSFromUserInput(crs) # "ok"
               THEN Raise("CRSError", [b2 EXCEPT !.crs = crs, !.has_crs = TRUE],
                          df2, properties2)
               ELSE WithCRS(b2, df2, properties2, crs)
          ELSE IF attribute = "crs"
          THEN IF CRSFromUserInput(value) # "ok"
               THEN Raise("CRSError", b1, df, properties)
               ELSE WithCRS(b1, df, properties, value)
          ELSE Finish(b1, df, properties, deviation)

\* Borehole.update_value(attribute, value), crs left at None
UpdateValue(attribute, value) == UpdateValueFull(attribute, value, PyNone)

\* Values handed to to_gdf as crs
GdfCRSInputs == {PyNone, PyStr("EPSG:25832"), PyInt(5)}

\* Borehole.to_gdf(crs)
ToGdf(crs) ==
    /\ UNCHANGED otherVars
    /\ UNCHANGED <<df, properties, deviation, built>>
    /\ IF ~borehole.has_properties
       THEN /\ result' = [op |-> "to_gdf", outcome |-> "ValueError", arg |-> crs]
            /\ UNCHANGED borehole
       ELSE IF crs.t \notin {"str", "CRS", "NoneType"}
       THEN /\ result' = [op |-> "to_gdf", outcome |-> "TypeError", arg |-> crs]
            /\ UNCHANGED borehole
       ELSE \E made \in GeoOutcomes :
               /\ result' = [op |-> "to_gdf", outcome |-> made, arg |-> crs]
               /\ borehole' = IF made = "ok"
                              THEN [borehole EXCEPT
                                       !.gdf = PyValue("GeoDataFrame", 0,
                                                       (IF Truthy(crs) THEN crs
                                                        ELSE borehole.crs).s, <<>>)]
                              ELSE borehole

\* Values handed as path: a LAS file, a file that is neither LAS nor DLIS,
\* and a number
Paths == {PyStr("logs.las"), PyStr("tops.csv"), PyInt(5)}
LasPaths == {"logs.las"}

\* LASLogs.__init__: the object copies the borehole's has_well_tops and
\* has_well_design as they are when it is made (a[1], a[2]; 1 for True)
Bit(b) == IF b THEN 1 ELSE 0
LASLogs(b) == PyValue("LASLogs", 0, "", <<Bit(b.has_well_tops), Bit(b.has_well_design)>>)

\* Borehole.add_well_logs(path), LAS files only.  With lasio missing the
\* constructor's lasio.read raises UnboundLocalError, a NameError
AddWellLogs(path) ==
    /\ UNCHANGED otherVars
    /\ UNCHANGED <<properties, deviation, built>>
    /\ IF ~borehole.has_properties
       THEN /\ result' = [op |-> "add_well_logs", outcome |-> "ValueError", arg |-> path]
            /\ UNCHANGED <<borehole, df>>
       ELSE IF path.t # "str"
       THEN /\ result' = [op |-> "add_well_logs", outcome |-> "TypeError", arg |-> path]
            /\ UNCHANGED <<borehole, df>>
       ELSE IF path.s \notin LasPaths
       THEN /\ result' = [op |-> "add_well_logs", outcome |-> "ValueError", arg |-> path]
            /\ UNCHANGED <<borehole, df>>
       ELSE \E made \in IF "lasio" \in installed THEN FileOutcomes ELSE {"NameError"} :
               /\ result' = [op |-> "add_well_logs", outcome |-> made, arg |-> path]
               /\ IF made = "ok"
                  THEN /\ borehole' = [borehole EXCEPT !.logs = LASLogs(borehole),
                                                       !.has_logs = TRUE]
                       /\ df' = DataFrame(SetLoc(df.rows, "Well Logs", PyBool(TRUE)))
                  ELSE UNCHANGED <<borehole, df>>

\* Values handed as top_column; the file's columns hold "Top"
TopColumns == {PyStr("Top"), PyStr("Formation")}

\* Borehole.add_well_tops(path, top_column), the other arguments left at
\* their defaults.  well_tops is assigned before the columns are checked
AddWellTops(path, top_column) ==
    /\ UNCHANGED otherVars
    /\ UNCHANGED <<properties, deviation, built>>
    /\ IF ~borehole.has_properties
       THEN /\ result' = [op |-> "add_well_tops", outcome |-> "ValueError", arg |-> path]
            /\ UNCHANGED <<borehole, df>>
       ELSE IF path.t # "str"
       THEN /\ result' = [op |-> "add_well_tops", outcome |-> "TypeError", arg |-> path]
            /\ UNCHANGED <<borehole, df>>
       ELSE \E made \in FileOutcomes :
               IF made # "ok"
               THEN /\ result' = [op |-> "add_well_tops", outcome |-> made, arg |-> path]
                    /\ UNCHANGED <<borehole, df>>
               ELSE IF top_column.s # "Top"
               THEN /\ result' = [op |-> "add_well_tops", outcome |-> "ValueError",
                                  arg |-> path]
                    /\ borehole' = [borehole EXCEPT !.well_tops = PyStr("WellTops")]
                    /\ UNCHANGED df
               ELSE /\ result' = [op |-> "add_well_tops", outcome |-> "ok", arg |-> path]
                    /\ borehole' = [borehole EXCEPT !.well_tops = PyStr("WellTops"),
                                                    !.has_well_tops = TRUE]
                    /\ df' = DataFrame(SetLoc(df.rows, "Well Tops", PyBool(TRUE)))

\* Borehole.add_litholog(path)
AddLitholog(path) ==
    /\ UNCHANGED otherVars
    /\ UNCHANGED <<properties, deviation, built>>
    /\ IF ~borehole.has_properties
       THEN /\ result' = [op |-> "add_litholog", outcome |-> "ValueError", arg |-> path]
            /\ UNCHANGED <<borehole, df>>
       ELSE IF path.t # "str"
       THEN /\ result' = [op |-> "add_litholog", outcome |-> "TypeError", arg |-> path]
            /\ UNCHANGED <<borehole, df>>
       ELSE \E made \in FileOutcomes :
               /\ result' = [op |-> "add_litholog", outcome |-> made, arg |-> path]
               /\ IF made = "ok"
                  THEN /\ borehole' = [borehole EXCEPT !.litholog = PyStr("LithoLog"),
                                                       !.has_litholog = TRUE]
                       /\ df' = DataFrame(SetLoc(df.rows, "Litholog", PyBool(TRUE)))
                  ELSE UNCHANGED <<borehole, df>>

\* add_well_design with has_well_design set ahead of the properties check
AddWellDesignFlagFirst ==
    /\ UNCHANGED otherVars
    /\ UNCHANGED <<properties, deviation, built>>
    /\ IF ~borehole.has_properties
       THEN /\ result' = [op |-> "add_well_design", outcome |-> "ValueError", arg |-> PyNone]
            /\ borehole' = [borehole EXCEPT !.has_well_design = TRUE]
            /\ UNCHANGED df
       ELSE /\ result' = [op |-> "add_well_design", outcome |-> "ok", arg |-> PyNone]
            /\ borehole' = [borehole EXCEPT !.has_well_design = TRUE,
                                            !.well_design = PyStr("WellDesign")]
            /\ df' = DataFrame(SetLoc(df.rows, "WellDesign", PyBool(TRUE)))

\* Borehole.add_well_design(): the flag, the WellDesign object, and the row
\* 'WellDesign', a label create_df does not have
AddWellDesign ==
    /\ UNCHANGED otherVars
    /\ UNCHANGED <<properties, deviation, built>>
    /\ IF ~borehole.has_properties
       THEN /\ result' = [op |-> "add_well_design", outcome |-> "ValueError", arg |-> PyNone]
            /\ UNCHANGED <<borehole, df>>
       ELSE /\ result' = [op |-> "add_well_design", outcome |-> "ok", arg |-> PyNone]
            /\ borehole' = [borehole EXCEPT !.has_well_design = TRUE,
                                            !.well_design = PyStr("WellDesign")]
            /\ df' = DataFrame(SetLoc(df.rows, "WellDesign", PyBool(TRUE)))

\* What matplotlib can come to once the checks of plot_well_logs have passed
PlotOutcomes == {"ok", "LibraryError"}

\* LASLogs.plot_well_logs(tracks=<list of curves of the file>, add_well_tops,
\* add_well_design) on the borehole's logs: the flags read are those the
\* logs object holds
PlotWellLogs(add_well_tops, add_well_design) ==
    /\ borehole.has_logs
    /\ UNCHANGED <<boreholeVars, otherVars>>
    /\ IF add_well_tops /\ borehole.logs.a[1] = 0
       THEN result' = [op |-> "plot_well_logs", outcome |-> "ValueError",
                       missing |-> "well tops",
                       add_well_tops |-> add_well_tops,
                       add_well_design |-> add_well_design]
       ELSE IF add_well_design /\ borehole.logs.a[2] = 0
       THEN result' = [op |-> "plot_well_logs", outcome |-> "ValueError",
                       missing |-> "well design",
                       add_well_tops |-> add_well_tops,
                       add_well_design |-> add_well_design]
       ELSE \E made \in PlotOutcomes :
               result' = [op |-> "plot_well_logs", outcome |-> made,
                          missing |-> "",
                          add_well_tops |-> add_well_tops,
                          add_well_design |-> add_well_design]

---------------------------------------------------------------------------
(* The borehole's life *)

NoCall == [op |-> "Borehole", outcome |-> "ok"]

\* An entry of Borehole.boreholes: the object, by the name it was made with
\* and whether its constructor returned
Entry(name, constructed) == [name |-> name, constructed |-> constructed]
NewEntry == Entry(PyStr("Weisweiler R1"), TRUE)

Init ==
    /\ borehole = NewBorehole
    /\ df = NoDataFrame
    /\ properties = NoDataFrame
    /\ deviation = NoObject
    /\ built = NoObject
    /\ result = NoCall
    /\ coordinates = <<>>
    /\ spacing = [num |-> 1, den |-> 1]
    /\ points_resampled = NoObject
    /\ spline = <<>>
    /\ dist = <<>>
    /\ points = NoObject
    /\ gr = <<>>
    /\ cutoff = [num |-> 0, den |-> 1]
    /\ net_to_gross = NoObject
    /\ boreholes = <<NewEntry>>
    /\ installed = Packages

Next ==
    \/ \E location \in Locations, crs \in CRSInputs, altitude \in Altitudes :
          InitProperties(location, crs, altitude)
    \/ \E survey \in StartVerticalSurveys, step \in 1..MaxStep, add_origin \in BOOLEAN :
          AddDeviation(survey, step, add_origin)
    \/ \E a \in AnchorArgs : AddOriginToDesurveying(a[1], a[2], a[3])
    \/ \E relative \in BOOLEAN : GetBoreholeTube(relative)
    \/ \E relative \in BOOLEAN : PlotDeviation3d(relative)

Spec == Init /\ [][Next]_vars

\* Desurveying alone: every survey of the model, handed to add_deviation as
\* the first call on a new or newly initialised borehole; no anchoring.  The
\* borehole has no CRS, a geographic one or a projected one
DesurveyCRSInputs == {PyNone, PyStr("EPSG:4326"), PyStr("EPSG:25832")}
NextDesurvey ==
    \/ \E location \in Locations, crs \in DesurveyCRSInputs, altitude \in Altitudes :
          InitProperties(location, crs, altitude)
    \/ \E survey \in Surveys, step \in 1..MaxStep, add_origin \in BOOLEAN :
          /\ result.op \in {"Borehole", "init_properties"}
          /\ AddDeviation(survey, step, add_origin)

SpecDesurvey == Init /\ [][NextDesurvey]_vars

\* add_deviation under every value of step and of md_column
NextStep ==
    \/ \E location \in Locations, crs \in CRSInputs, altitude \in Altitudes :
          InitProperties(location, crs, altitude)
    \/ \E survey \in VerticalSurveys, step \in StepInputs, md_column \in MdColumns,
          add_origin \in BOOLEAN :
          AddDeviationStep(survey, step, md_column, add_origin)

SpecStep == Init /\ [][NextStep]_vars

\* One Deviation and every operation on it, any number of times
NextAnchor ==
    \/ \E location \in Locations, crs \in CRSInputs, altitude \in Altitudes :
          /\ ~borehole.has_properties
          /\ InitProperties(location, crs, altitude)
    \/ \E survey \in VerticalSurveys, step \in 1..MaxStep, add_origin \in BOOLEAN :
          /\ deviation = NoObject
          /\ AddDeviation(survey, step, add_origin)
    \/ \E a \in AnchorArgs : AddOriginToDesurveying(a[1], a[2], a[3])
    \/ \E relative \in BOOLEAN : GetBoreholeTube(relative)
    \/ \E relative \in BOOLEAN : PlotDeviation3d(relative)

SpecAnchor == Init /\ [][NextAnchor]_vars

\* The properties of a borehole: initialised, changed, initialised again,
\* with a component added in between
PropertyCRSInputs == {PyNone, PyStr("EPSG:25832")}
NextProperties ==
    \/ \E location \in Locations, crs \in PropertyCRSInputs, altitude \in Altitudes,
          tvd \in Tvds :
          InitPropertiesTvd(location, crs, altitude, tvd)
    \/ \E attribute \in UpdateAttributes : \E value \in UpdateValues(attribute) :
          /\ UpdateValue(attribute, value)
    \/ AddWellDesign

SpecProperties == Init /\ [][NextProperties]_vars

\* Every method that needs initialised properties, on a new borehole and on
\* an initialised one
NextMethods ==
    \/ \E altitude \in Altitudes :
          /\ ~borehole.has_properties
          /\ InitProperties(PyTuple(<<1, 2>>), PyStr("EPSG:25832"), altitude)
    \/ \E data_dict \in DataDicts :
          /\ Len(df.rows) + Len(data_dict.a) <= MaxMethodRows
          /\ UpdateDf(data_dict)
    \/ \E value \in UpdateValues("x") : UpdateValue("x", value)
    \/ \E crs \in GdfCRSInputs : ToGdf(crs)
    \/ \E survey \in VerticalSurveys, step \in {PyInt(1), PyList(<<5>>)} :
          AddDeviationStep(survey, step, "MD", FALSE)
    \/ \E path \in Paths : AddWellLogs(path)
    \/ \E path \in Paths, top_column \in TopColumns : AddWellTops(path, top_column)
    \/ \E path \in Paths : AddLitholog(path)
    \/ AddWellDesign

SpecMethods == Init /\ [][NextMethods]_vars

\* A Deviation built without its origin on a borehole in 'EPSG:4326', the
\* borehole's CRS changed back and forth through update_value, and the
\* Deviation anchored with the borehole's own x, y and altitude
RemedyCRS == {PyStr("EPSG:4326"), PyStr("EPSG:25832")}
NextRemedy ==
    \/ /\ ~borehole.has_properties
       /\ InitProperties(PyTuple(<<1, 2>>), PyStr("EPSG:4326"), PyInt(3))
    \/ \E survey \in StartVerticalSurveys, step \in 1..MaxStep :
          /\ deviation = NoObject
          /\ AddDeviation(survey, step, FALSE)
    \/ \E crs \in RemedyCRS :
          /\ deviation # NoObject
          /\ UpdateValue("crs", crs)
    \/ \E crs \in RemedyCRS :
          /\ deviation # NoObject
          /\ UpdateValueFull("location", PyTuple(<<2, 1>>), crs)
    \/ AddOriginToDesurveying(PyNone, PyNone, PyNone)

SpecRemedy == Init /\ [][NextRemedy]_vars

\* The location and the CRS of a borehole, set and changed with values the
\* calls accept and with values they reject: a CRS identifier pyproj does
\* not know, a number where a CRS is expected, a list as value
RejectedCRS == {PyStr("EPSG:999999"), PyInt(4326)}
NextCRS ==
    \/ \E location \in Locations, crs \in {PyNone, PyStr("EPSG:25832")} \cup RejectedCRS :
          InitProperties(location, crs, PyInt(3))
    \/ \E survey \in VerticalSurveys :
          /\ deviation = NoObject
          /\ AddDeviation(survey, 1, FALSE)
    \/ \E crs \in {PyStr("EPSG:4326"), PyStr("EPSG:999999")} : UpdateValue("crs", crs)
    \/ \E value \in {PyTuple(<<2, 1>>), PyList(<<2, 1>>)},
          crs \in {PyNone, PyStr("EPSG:4326")} \cup RejectedCRS :
          UpdateValueFull("location", value, crs)
    \/ \E attribute \in {"x", "borehole_id"} : \E value \in UpdateValues(attribute) :
          UpdateValue(attribute, value)

SpecCRS == Init /\ [][NextCRS]_vars

\* Well logs, well tops and a well design added in any order, and the logs
\* plotted
NextLogs ==
    \/ /\ ~borehole.has_properties
       /\ InitProperties(PyTuple(<<1, 2>>), PyStr("EPSG:25832"), PyInt(3))
    \/ \E path \in Paths : AddWellLogs(path)
    \/ \E path \in Paths, top_column \in TopColumns : AddWellTops(path, top_column)
    \/ AddWellDesign
    \/ \E add_well_tops \in BOOLEAN, add_well_design \in BOOLEAN :
          PlotWellLogs(add_well_tops, add_well_design)

SpecLogs == Init /\ [][NextLogs]_vars

\* Borehole(name), a further object of the class: the object is appended to
\* the class-level list first, the name is checked after
Names == {PyStr("Weisweiler R1"), PyStr("Weisweiler R2"), PyList(<<1>>)}
BoreholeInit(name) ==
    /\ Len(boreholes) < MaxBoreholes
    /\ UNCHANGED <<boreholeVars, logsVars, installed>>
    /\ IF name.t # "str"
       THEN /\ boreholes' = Append(boreholes, Entry(name, FALSE))
            /\ result' = [op |-> "Borehole", outcome |-> "TypeError"]
       ELSE /\ boreholes' = Append(boreholes, Entry(name, TRUE))
            /\ result' = [op |-> "Borehole", outcome |-> "ok"]

\* Constructor calls alone, after the first borehole
NextRegistry == \E name \in Names : BoreholeInit(name)

SpecRegistry == Init /\ [][NextRegistry]_vars

---------------------------------------------------------------------------
(* resample_between_well_deviation_points (logs.py) *)

\* Waypoints <<x, y, z>> of a well path and the spacings tried
Waypoints == {<<x, 0, z>> : x \in 0..1, z \in 0..MaxCoord}
WaypointArrays == UNION {[1..n -> Waypoints] : n \in 1..MaxPoints}
Spacings == {[num |-> n, den |-> d] : n \in 1..MaxSpacingNum, d \in 1..2}

\* A resampled point: the rational coordinates p[c] / q
Point(p, q) == [p |-> p, q |-> q]

\* |a - b|^2 for two waypoints
NormSquared(a, b) ==
    (a[1] - b[1]) * (a[1] - b[1]) + (a[2] - b[2]) * (a[2] - b[2])
        + (a[3] - b[3]) * (a[3] - b[3])

\* int(dist // spacing): the largest n with n * spacing <= dist
NumPoints(a, b, sp) ==
    LET d2 == NormSquared(a, b)
    IN CHOOSE n \in 0..(d2 * sp.den) :
          /\ n * n * sp.num * sp.num <= d2 * sp.den * sp.den
          /\ (n + 1) * (n + 1) * sp.num * sp.num > d2 * sp.den * sp.den

\* np.linspace(a, b, num): num evenly spaced points from a to b, only a for num = 1
Linspace(a, b, num) ==
    IF num = 1 THEN <<Point(a, 1)>>
    ELSE [j \in 1..num |->
             Point([c \in 1..3 |-> a[c] * (num - 1) + (j - 1) * (b[c] - a[c])], num - 1)]

RECURSIVE SegmentPoints(_, _, _)
\* The points of segments i, i + 1, ... of the loop, in order
SegmentPoints(coords, sp, i) ==
    IF i > Len(coords) - 1 THEN <<>>
    ELSE Linspace(coords[i], coords[i + 1], NumPoints(coords[i], coords[i + 1], sp) + 1)
             \o SegmentPoints(coords, sp, i + 1)

resample_between_well_deviation_points(coords, sp) == SegmentPoints(coords, sp, 1)

Resample ==
    /\ points_resampled = NoObject
    /\ points_resampled' = Object(resample_between_well_deviation_points(coordinates, spacing))
    /\ result' = [op |-> "resample_between_well_deviation_points", outcome |-> "ok"]
    /\ UNCHANGED <<boreholeVars, coordinates, spacing, splineVars, ngVars, classVars>>

InitResample ==
    /\ borehole = NewBorehole
    /\ df = NoDataFrame
    /\ properties = NoDataFrame
    /\ deviation = NoObject
    /\ built = NoObject
    /\ result = NoCall
    /\ coordinates \in WaypointArrays
    /\ spacing \in Spacings
    /\ points_resampled = NoObject
    /\ spline = <<>>
    /\ dist = <<>>
    /\ points = NoObject
    /\ gr = <<>>
    /\ cutoff = [num |-> 0, den |-> 1]
    /\ net_to_gross = NoObject
    /\ boreholes = <<NewEntry>>
    /\ installed = Packages

NextResample == Resample

SpecResample == InitResample /\ [][NextResample]_vars

---------------------------------------------------------------------------
(* get_points_along_spline (logs.py) *)

\* A spline point: its coordinates and its point_data['arc_length']
SplinePoint(arc) == [point |-> <<0, 0, arc>>, arc_length |-> arc]

\* Splines: points down a vertical path, arc length 0 at the first and never
\* decreasing (a point may repeat, as in the output of the resampling)
Splines ==
    {[i \in 1..Len(a) |-> SplinePoint(a[i])] :
        a \in {b \in UNION {[1..n -> 0..MaxArc] : n \in 1..MaxSplinePoints} :
                  b[1] = 0 /\ \A i \in 1..(Len(b) - 1) : b[i] <= b[i + 1]}}

\* Requested depths: below 0, along the spline, beyond its end
Distances == UNION {[1..n -> (-1)..(MaxArc + 1)] : n \in 0..MaxDists}

\* np.abs
Abs(n) == IF n < 0 THEN -n ELSE n

\* np.argmin: the index of the first occurrence of the minimum
ArgminLast(a) ==
    CHOOSE i \in 1..Len(a) :
        /\ \A j \in 1..Len(a) : a[i] <= a[j]
        /\ \A j \in (i + 1)..Len(a) : a[i] < a[j]

Argmin(a) ==
    CHOOSE i \in 1..Len(a) :
        /\ \A j \in 1..Len(a) : a[i] <= a[j]
        /\ \A j \in 1..(i - 1) : a[i] < a[j]

\* The loop over dist and the indexing spline.points[idx_list]
get_points_along_spline(sp, ds) ==
    LET idx_list == [k \in 1..Len(ds) |->
                        Argmin([i \in 1..Len(sp) |-> Abs(sp[i].arc_length - ds[k])])]
    IN [k \in 1..Len(ds) |-> sp[idx_list[k]].point]

\* get_points_along_spline(spline, dist); with pyvista missing the type
\* check of spline, the first use of the name pv, raises UnboundLocalError
GetPointsAlongSpline ==
    /\ points = NoObject
    /\ IF "pyvista" \in installed
       THEN /\ points' = Object(get_points_along_spline(spline, dist))
            /\ result' = [op |-> "get_points_along_spline", outcome |-> "ok"]
       ELSE /\ points' = points
            /\ result' = [op |-> "get_points_along_spline", outcome |-> "NameError"]
    /\ UNCHANGED <<boreholeVars, resampleVars, spline, dist, ngVars, classVars>>

InitSpline ==
    /\ borehole = NewBorehole
    /\ df = NoDataFrame
    /\ properties = NoDataFrame
    /\ deviation = NoObject
    /\ built = NoObject
    /\ result = NoCall
    /\ coordinates = <<>>
    /\ spacing = [num |-> 1, den |-> 1]
    /\ points_resampled = NoObject
    /\ spline \in Splines
    /\ dist \in Distances
    /\ points = NoObject
    /\ gr = <<>>
    /\ cutoff = [num |-> 0, den |-> 1]
    /\ net_to_gross = NoObject
    /\ boreholes = <<NewEntry>>
    /\ installed = Packages

NextSpline == GetPointsAlongSpline

SpecSpline == InitSpline /\ [][NextSpline]_vars

---------------------------------------------------------------------------
(* The optional packages *)

\* Values handed to polyline_from_points: an array of points, a list
PolylineInputs == {PyArray(<<0, 0, 1>>), PyList(<<0, 0, 1>>)}

\* polyline_from_points(points)
PolylineFromPoints(pts) ==
    /\ result' = [op |-> "polyline_from_points", arg |-> pts,
                  outcome |-> IF pts.t # "ndarray" THEN "TypeError"
                              ELSE IF "pyvista" \notin installed THEN "NameError"
                              ELSE "ok"]
    /\ UNCHANGED <<boreholeVars, otherVars>>

\* LASLogs.plot_well_log_along_path(log, relative), log a curve of the file:
\* the borehole needs a Deviation, and for relative=False the anchored
\* columns; pv.Spline is the first use of the name pv
PlotWellLogAlongPath(relative) ==
    /\ borehole.has_logs
    /\ \E made \in PlotOutcomes :
          result' = [op |-> "plot_well_log_along_path", relative |-> relative,
                     outcome |-> IF deviation = NoObject THEN "ValueError"
                                 ELSE IF ~relative /\ IsNone(deviation[1].easting)
                                 THEN "ValueError"
                                 ELSE IF "pyvista" \notin installed THEN "NameError"
                                 ELSE made]
    /\ UNCHANGED <<boreholeVars, otherVars>>

\* An environment with any of the optional packages missing
InitDependencies ==
    /\ borehole = NewBorehole
    /\ df = NoDataFrame
    /\ properties = NoDataFrame
    /\ deviation = NoObject
    /\ built = NoObject
    /\ result = NoCall
    /\ coordinates = <<>>
    /\ spacing = [num |-> 1, den |-> 1]
    /\ points_resampled = NoObject
    /\ spline = <<SplinePoint(0), SplinePoint(1)>>
    /\ dist = <<1>>
    /\ points = NoObject
    /\ gr = <<>>
    /\ cutoff = [num |-> 0, den |-> 1]
    /\ net_to_gross = NoObject
    /\ boreholes = <<NewEntry>>
    /\ installed \in SUBSET Packages

NextDependencies ==
    \/ /\ ~borehole.has_properties
       /\ InitProperties(PyTuple(<<1, 2>>), PyStr("EPSG:25832"), PyInt(3))
    \/ \E survey \in VerticalSurveys, step \in {PyInt(1), PyList(<<5>>)} :
          AddDeviationStep(survey, step, "MD", FALSE)
    \/ \E relative \in BOOLEAN : GetBoreholeTube(relative)
    \/ \E path \in Paths : AddWellLogs(path)
    \/ \E relative \in BOOLEAN : PlotWellLogAlongPath(relative)
    \/ \E pts \in PolylineInputs : PolylineFromPoints(pts)
    \/ GetPointsAlongSpline

SpecDependencies == InitDependencies /\ [][NextDependencies]_vars

---------------------------------------------------------------------------
(* LASLogs.calculate_net_to_gross (logs.py) *)

\* The gamma-ray column of a log, and the cutoffs tried: 0, between 0 and 1,
\* 1, above 1
GammaRays == UNION {[1..n -> 0..MaxGR] : n \in 1..MaxSamples}
Cutoffs == {[num |-> n, den |-> 2] : n \in 0..MaxCutoffNum}

\* df[column].max() and df[column].min()
SeriesMax(a) == CHOOSE m \in {a[i] : i \in 1..Len(a)} : \A i \in 1..Len(a) : a[i] <= m
SeriesMin(a) == CHOOSE m \in {a[i] : i \in 1..Len(a)} : \A i \in 1..Len(a) : m <= a[i]

\* calculating_ng applied to one sample's VShale_Linear, which
\* calculate_vshale_linear made as (g - gr_min) / (gr_max - gr_min): 1 at or
\* below the cutoff, 0 above it and up to 1, -1 otherwise.  With
\* gr_max = gr_min the quotient is NaN and both comparisons are False
calculating_ng(g, gr_min, gr_max, cutoff_value) ==
    IF gr_max = gr_min THEN -1
    ELSE IF (g - gr_min) * cutoff_value.den <= cutoff_value.num * (gr_max - gr_min) THEN 1
    ELSE IF g - gr_min <= gr_max - gr_min THEN 0
    ELSE -1

\* The column df['N/G']
NetGrossColumn(a, cutoff_value) ==
    [i \in 1..Len(a) |-> calculating_ng(a[i], SeriesMin(a), SeriesMax(a), cutoff_value)]

\* value_counts()[label]: the number of rows holding the label; the Series
\* of counts is indexed by the values present, so a label with no row is a
\* KeyError (count 0 here)
value_counts(column, label) == Cardinality({i \in 1..Len(column) : column[i] = label})

\* calculate_net_to_gross(method='linear', column, cutoff): the quotient
\* value_counts()[0] / (value_counts()[0] + value_counts()[1]) as a rational
calculate_net_to_gross(a, cutoff_value) ==
    LET column == NetGrossColumn(a, cutoff_value)
    IN IF value_counts(column, 0) = 0 \/ value_counts(column, 1) = 0
       THEN [outcome |-> "KeyError", num |-> 0, den |-> 1]
       ELSE [outcome |-> "ok",
             num |-> value_counts(column, 0),
             den |-> value_counts(column, 0) + value_counts(column, 1)]

CalculateNetToGross ==
    /\ net_to_gross = NoObject
    /\ net_to_gross' = Object(calculate_net_to_gross(gr, cutoff))
    /\ result' = [op |-> "calculate_net_to_gross",
                  outcome |-> calculate_net_to_gross(gr, cutoff).outcome]
    /\ UNCHANGED <<boreholeVars, resampleVars, splineVars, gr, cutoff, classVars>>

InitNetToGross ==
    /\ borehole = NewBorehole
    /\ df = NoDataFrame
    /\ properties = NoDataFrame
    /\ deviation = NoObject
    /\ built = NoObject
    /\ result = NoCall
    /\ coordinates = <<>>
    /\ spacing = [num |-> 1, den |-> 1]
    /\ points_resampled = NoObject
    /\ spline = <<>>
    /\ dist = <<>>
    /\ points = NoObject
    /\ gr \in GammaRays
    /\ cutoff \in Cutoffs
    /\ net_to_gross = NoObject
    /\ boreholes = <<NewEntry>>
    /\ installed = Packages

NextNetToGross == CalculateNetToGross

SpecNetToGross == InitNetToGross /\ [][NextNetToGross]_vars

---------------------------------------------------------------------------
(* Properties *)

\* The last call was add_origin_to_desurveying and it returned
Anchored == result.op = "add_origin_to_desurveying" /\ result.outcome = "ok"

\* C1: after add_origin_to_desurveying(x, y, z) every sample has
\* Northing = Northing_rel + y, Easting = Easting_rel + x and True Vertical
\* Depth Below Sea Level = z - True Vertical Depth, for every number passed,
\* zero included; only an omitted argument is replaced by the stored value.
AnchoringAdditivity ==
    Anchored =>
        LET t == deviation[1].desurveyed_df
            x == IF IsNone(result.args.x) THEN borehole.x.i ELSE result.args.x.i
            y == IF IsNone(result.args.y) THEN borehole.y.i ELSE result.args.y.i
            z == IF IsNone(result.args.z) THEN borehole.altitude_above_sea_level.i
                 ELSE result.args.z.i
        IN \A i \in 1..Len(t["Northing_rel"]) :
              /\ t["Northing"][i] = t["Northing_rel"][i] + y * PosScale
              /\ t["Easting"][i] = t["Easting_rel"][i] + x * PosScale
              /\ t["True Vertical Depth Below Sea Level"][i]
                     = z * PosScale - t["True Vertical Depth"][i]

\* C2: the origin is applied once: a Deviation made with add_origin=True and
\* anchored with default arguments has, at every sample, Northing and Easting
\* equal to the minimum-curvature displacement plus the borehole's y and x,
\* and tvdss equal to the altitude minus the true vertical depth.
OriginAppliedOnce ==
    (/\ Anchored
     /\ IsNone(result.args.x) /\ IsNone(result.args.y) /\ IsNone(result.args.z)
     /\ built[1].add_origin) =>
        LET pos == Resampled(built[1].survey, built[1].step)
            d == deviation[1]
        IN /\ Len(d.northing.a) = Len(pos)
           /\ \A i \in 1..Len(pos) :
                 /\ d.northing.a[i] = pos[i][1] + borehole.y.i * PosScale
                 /\ d.easting.a[i] = pos[i][2] + borehole.x.i * PosScale
                 /\ d.tvdss.a[i] = borehole.altitude_above_sea_level.i * PosScale - pos[i][3]

\* Whether a CRS is a geographic, degree-based system: WGS 84 under either
\* spelling of its code, as a string or as a CRS object, and ETRS89
IsGeographic(crs) ==
    crs.t \in {"str", "CRS"} /\ crs.s \in {"EPSG:4326", "epsg:4326", "EPSG:4258"}

\* C3: on a borehole that has a location and an altitude, anchoring
\* (add_deviation with add_origin=True, or add_origin_to_desurveying with
\* default arguments) raises ValueError whenever the borehole's CRS is
\* geographic, under every identifier of it, and succeeds when it is not;
\* construction with add_origin=False succeeds whatever the CRS.
CRSGuard ==
    (borehole.has_properties /\ ~IsNone(borehole.x) /\ ~IsNone(borehole.y)
        /\ ~IsNone(borehole.altitude_above_sea_level)) =>
        /\ (\/ (result.op = "add_origin_to_desurveying"
                  /\ IsNone(result.args.x) /\ IsNone(result.args.y)
                  /\ IsNone(result.args.z))
            \/ (result.op = "add_deviation" /\ result.ctor.add_origin)) =>
               result.outcome = IF IsGeographic(borehole.crs) THEN "ValueError" ELSE "ok"
        /\ (result.op = "add_deviation" /\ ~result.ctor.add_origin) =>
               result.outcome = "ok"

\* C4: a survey with inclination 0 at every station gives, for either value of
\* add_origin and any location, northing_rel = easting_rel = 0 at every
\* resampled depth and tvd equal to the resampled measured depth.
ZeroInclination ==
    (deviation # NoObject /\ \A k \in 1..Len(built[1].survey) : built[1].survey[k].inc = 0) =>
        LET d == deviation[1]
            depths == ResampleDepths(built[1].survey, built[1].step)
        IN /\ Len(d.tvd) = Len(depths)
           /\ \A i \in 1..Len(depths) :
                 /\ d.northing_rel[i] = 0
                 /\ d.easting_rel[i] = 0
                 /\ d.tvd[i] = depths[i] * PosScale

\* C5: plot_deviation_3d(relative=False) and get_borehole_tube(relative=False)
\* raise ValueError on a Deviation that was never anchored and succeed on one
\* that was.
AbsoluteFrameGuard ==
    (result.op \in {"plot_deviation_3d", "get_borehole_tube"} /\ ~result.relative) =>
        result.outcome = IF IsNone(deviation[1].northing) THEN "ValueError" ELSE "ok"

\* C6: a call of add_origin_to_desurveying that raises leaves the Deviation
\* and the borehole as they were: no new or changed column of desurveyed_df,
\* northing, easting and tvdss unchanged, no new row in Borehole.df.
AnchoringAllOrNothing ==
    [][(result'.op = "add_origin_to_desurveying" /\ result'.outcome # "ok") =>
          (deviation' = deviation /\ df' = df /\ borehole' = borehole
              /\ properties' = properties)]_vars

\* The squared distance of two resampled points, times (a.q * b.q)^2
GapSquared(a, b) ==
    LET d(c) == a.p[c] * b.q - b.p[c] * a.q
    IN d(1) * d(1) + d(2) * d(2) + d(3) * d(3)

\* Whether the resampled point pt is the waypoint w
IsWaypoint(pt, w) == \A c \in 1..3 : pt.p[c] = w[c] * pt.q

\* C7: for two or more waypoints, no two consecutive points of the output of
\* resample_between_well_deviation_points are farther apart than spacing.
ResamplingDensity ==
    (points_resampled # NoObject /\ Len(coordinates) >= 2) =>
        LET pts == points_resampled[1]
        IN \A i \in 1..(Len(pts) - 1) :
              GapSquared(pts[i], pts[i + 1]) * spacing.den * spacing.den
                  <= spacing.num * spacing.num
                         * (pts[i].q * pts[i + 1].q) * (pts[i].q * pts[i + 1].q)

\* C8: for two or more pairwise distinct waypoints, the output of
\* resample_between_well_deviation_points contains every waypoint, the last
\* one and the ends of segments shorter than spacing included, and has at
\* least as many points as there are waypoints.
WaypointsKept ==
    (/\ points_resampled # NoObject /\ Len(coordinates) >= 2
     /\ \A k, l \in 1..Len(coordinates) : k # l => coordinates[k] # coordinates[l]) =>
        LET pts == points_resampled[1]
        IN /\ Len(pts) >= Len(coordinates)
           /\ \A k \in 1..Len(coordinates) :
                 \E j \in 1..Len(pts) : IsWaypoint(pts[j], coordinates[k])

\* C9: for pairwise distinct waypoints, a waypoint shared by two consecutive
\* segments appears exactly once in the output of
\* resample_between_well_deviation_points, and no two consecutive output
\* points are identical.
NoDuplicatedBoundary ==
    (/\ points_resampled # NoObject
     /\ \A k, l \in 1..Len(coordinates) : k # l => coordinates[k] # coordinates[l]) =>
        LET pts == points_resampled[1]
        IN /\ \A k \in 2..(Len(coordinates) - 1) :
                 Cardinality({j \in 1..Len(pts) : IsWaypoint(pts[j], coordinates[k])}) = 1
           /\ \A i \in 1..(Len(pts) - 1) : GapSquared(pts[i], pts[i + 1]) # 0

\* C11: add_deviation with an int or float step <= 0 fails with an error
\* and produces no Deviation.
NonPositiveStepFails ==
    (result.op = "add_deviation" /\ result.ctor.step.t \in {"int", "float"}
        /\ result.ctor.step.i <= 0) =>
        (result.outcome # "ok" /\ deviation = NoObject)

\* C12: on an initialised borehole, add_deviation with a positive float step
\* and add_origin=False returns a Deviation resampled at 0, step, 2*step, ...
\* up to the last measured depth L: floor(L / step) + 1 samples.
FloatStepResamples ==
    (result.op = "add_deviation" /\ borehole.has_properties
        /\ result.ctor.step.t = "float" /\ result.ctor.step.i > 0
        /\ ~result.ctor.add_origin) =>
        /\ result.outcome = "ok"
        /\ deviation # NoObject
        /\ LET survey == result.ctor.survey
           IN Len(deviation[1].tvd) = (survey[Len(survey)].md \div result.ctor.step.i) + 1

\* C13: get_points_along_spline returns one point per requested depth, in
\* request order: the spline point whose arc length is nearest the depth,
\* the one of lowest index when several are equally near; the last point for
\* a depth beyond the total arc length and the first for a depth below 0.
NearestPointPerDepth ==
    points # NoObject =>
        LET out == points[1]
            n == Len(spline)
        IN /\ Len(out) = Len(dist)
           /\ \A k \in 1..Len(dist) :
                 \E i \in 1..n :
                    /\ out[k] = spline[i].point
                    /\ \A j \in 1..n : Abs(spline[i].arc_length - dist[k])
                                           <= Abs(spline[j].arc_length - dist[k])
                    /\ \A j \in 1..(i - 1) : Abs(spline[i].arc_length - dist[k])
                                                 < Abs(spline[j].arc_length - dist[k])
           /\ \A k \in 1..Len(dist) :
                 /\ dist[k] > spline[n].arc_length => out[k] = spline[n].point
                 /\ dist[k] < 0 => out[k] = spline[1].point

\* C13 witness: a call in which one depth lies midway between two distinct
\* points of the spline and another lies beyond its end
NearestPointWitness ==
    /\ points # NoObject
    /\ \E k \in 1..Len(dist) : \E i \in 1..(Len(spline) - 1) :
          /\ spline[i].arc_length < dist[k] /\ dist[k] < spline[i + 1].arc_length
          /\ dist[k] - spline[i].arc_length = spline[i + 1].arc_length - dist[k]
    /\ \E k \in 1..Len(dist) : dist[k] > spline[Len(spline)].arc_length

\* The rows of Borehole.df under a label
RowsLabelled(label) == {i \in 1..Len(df.rows) : df.rows[i].label = label}

\* C14: after a successful add_origin_to_desurveying, the first or a later
\* one, Borehole.df holds exactly one row for each of 'Northing', 'Easting'
\* and 'True Vertical Depth Below Sea Level', holding the Deviation's current
\* northing, easting and tvdss.
AnchoredTableEntries ==
    Anchored =>
        /\ Cardinality(RowsLabelled("Northing")) = 1
        /\ Cardinality(RowsLabelled("Easting")) = 1
        /\ Cardinality(RowsLabelled("True Vertical Depth Below Sea Level")) = 1
        /\ \A i \in RowsLabelled("Northing") : df.rows[i].value = deviation[1].northing
        /\ \A i \in RowsLabelled("Easting") : df.rows[i].value = deviation[1].easting
        /\ \A i \in RowsLabelled("True Vertical Depth Below Sea Level") :
              df.rows[i].value = deviation[1].tvdss

\* C15: a call of add_deviation that raises leaves the borehole as it was:
\* deviation (None or the earlier Deviation), has_deviation and every other
\* attribute, df and properties.
AddDeviationAllOrNothing ==
    [][(result'.op = "add_deviation" /\ result'.outcome # "ok") =>
          (deviation' = deviation /\ borehole' = borehole /\ df' = df
              /\ properties' = properties)]_vars

\* C15 witness: add_deviation has raised on a borehole that holds an earlier
\* Deviation
AddDeviationRaisedWitness ==
    /\ result.op = "add_deviation"
    /\ result.outcome \in {"TypeError", "ValueError"}
    /\ deviation # NoObject
    /\ borehole.has_deviation

\* C16: right after construction, for either add_origin, northing, easting
\* and tvdss are None; after a successful add_origin_to_desurveying all three
\* are arrays with one value per resampled sample; and no later operation on
\* the Deviation makes one of them None again.
AbsoluteFieldsLifecycle ==
    /\ [](result.op = "add_deviation" /\ result.outcome = "ok" =>
             /\ IsNone(deviation[1].northing)
             /\ IsNone(deviation[1].easting)
             /\ IsNone(deviation[1].tvdss))
    /\ [](Anchored =>
             /\ deviation[1].northing.t = "ndarray"
             /\ deviation[1].easting.t = "ndarray"
             /\ deviation[1].tvdss.t = "ndarray"
             /\ Len(deviation[1].northing.a) = Len(deviation[1].tvd)
             /\ Len(deviation[1].easting.a) = Len(deviation[1].tvd)
             /\ Len(deviation[1].tvdss.a) = Len(deviation[1].tvd))
    /\ [][(deviation # NoObject
            /\ result'.op \in {"add_origin_to_desurveying", "plot_deviation_3d",
                               "get_borehole_tube"}) =>
              /\ ~IsNone(deviation[1].northing) => ~IsNone(deviation'[1].northing)
              /\ ~IsNone(deviation[1].easting) => ~IsNone(deviation'[1].easting)
              /\ ~IsNone(deviation[1].tvdss) => ~IsNone(deviation'[1].tvdss)]_vars

\* C16 witness: a Deviation anchored earlier, on which a later
\* add_origin_to_desurveying has raised
AnchoredThenRaisedWitness ==
    /\ result.op = "add_origin_to_desurveying"
    /\ result.outcome = "TypeError"
    /\ deviation # NoObject
    /\ deviation[1].northing.t = "ndarray"
    /\ Len(deviation[1].tvd) > 1

PropertyMethods == {"update_df", "update_value", "to_gdf", "add_deviation",
                    "add_well_logs", "add_well_tops", "add_litholog", "add_well_design"}

\* C18: on a borehole whose properties are not initialised, update_df,
\* update_value, to_gdf, add_deviation, add_well_logs, add_well_tops,
\* add_litholog and add_well_design raise ValueError whatever their
\* arguments, wrongly typed ones included, and leave the borehole, its
\* tables and its components as they were.
MethodsNeedProperties ==
    [][(~borehole.has_properties /\ result'.op \in PropertyMethods)
          => /\ result'.outcome = "ValueError"
             /\ UNCHANGED boreholeVars]_vars

\* C18 witness: every one of the eight methods is called in the model; here
\* update_df, handed a list, has raised ValueError on a new borehole
MethodsNeedPropertiesWitness ==
    /\ ~borehole.has_properties
    /\ result.op = "update_df"
    /\ result.outcome = "ValueError"
    /\ result.arg.t = "list"

\* C19: init_properties is a full reset: after it tvdss is tvd minus the
\* altitude and has_tvdss is true when both were given, tvdss is None and
\* has_tvdss is not true otherwise; no component is left, every component
\* flag is False, and the tables are those of the new attribute values.
InitPropertiesResets ==
    result.op = "init_properties" =>
        LET both == Truthy(borehole.tvd) /\ Truthy(borehole.altitude_above_sea_level)
        IN /\ borehole.tvdss = IF both
                               THEN PyInt(borehole.tvd.i - borehole.altitude_above_sea_level.i)
                               ELSE PyNone
           /\ Truthy(borehole.has_tvdss) = both
           /\ deviation = NoObject
           /\ borehole.logs = PyNone /\ borehole.well_tops = PyNone
           /\ borehole.litholog = PyNone /\ borehole.well_design = PyNone
           /\ ~borehole.has_deviation /\ ~borehole.has_logs /\ ~borehole.has_well_tops
           /\ ~borehole.has_litholog /\ ~borehole.has_well_design
           /\ df = create_df(borehole)

\* The has_ flag of an attribute, as a Boolean
HasAttribute(b, attribute) ==
    CASE attribute = "x" -> b.has_x
      [] attribute = "altitude_above_sea_level" -> b.has_altitude_above_sea_level
      [] attribute = "tvd" -> b.has_tvd
      [] attribute = "tvdss" -> Truthy(b.has_tvdss)
      [] attribute = "crs" -> b.has_crs
      [] attribute = "borehole_id" -> b.has_borehole_id

\* The label of an attribute's row in the tables of create_df
RowLabel(attribute) ==
    CASE attribute = "x" -> "X"
      [] attribute = "altitude_above_sea_level" -> "Altitude above sea level"
      [] attribute = "tvd" -> "True Vertical Depth"
      [] attribute = "tvdss" -> "True Vertical Depth Sub Sea"
      [] attribute = "crs" -> "Coordinate Reference System"
      [] attribute = "borehole_id" -> "ID"

\* C20: on an initialised borehole update_value(attribute, value), for an
\* attribute init_properties sets and a value of an accepted type, completes
\* without error; afterwards the attribute equals the value, its has_ flag
\* is True, its row of df holds the value and its row of properties True.
UpdateValueSetsAttribute ==
    (/\ result.op = "update_value"
     /\ borehole.has_properties
     /\ result.arg.t \in {"int", "float", "str", "tuple"}) =>
        /\ result.outcome = "ok"
        /\ borehole[result.attribute] = result.arg
        /\ HasAttribute(borehole, result.attribute)
        /\ \E i \in 1..Len(df.rows) :
              df.rows[i] = Row(RowLabel(result.attribute), result.arg)
        /\ \E i \in 1..Len(properties.rows) :
              properties.rows[i] = Row(RowLabel(result.attribute), PyBool(TRUE))

\* C21: plot_well_logs(tracks=<list>, add_well_tops=True) raises the
\* ValueError for missing well tops exactly when the borehole has no well
\* tops at the time of the call, and with add_well_design=True (and no
\* well-tops error) the ValueError for a missing well design exactly when
\* the borehole has no well design, whatever the order in which logs, tops
\* and design were added.
PlotChecksCurrentBorehole ==
    result.op = "plot_well_logs" =>
        /\ result.add_well_tops =>
              ((result.outcome = "ValueError" /\ result.missing = "well tops")
                 <=> ~borehole.has_well_tops)
        /\ (result.add_well_design /\ result.missing # "well tops") =>
              ((result.outcome = "ValueError" /\ result.missing = "well design")
                 <=> ~borehole.has_well_design)

\* The samples of a log classified net (N/G = 1) and non-net (N/G = 0)
NetSamples(a, cutoff_value) ==
    Cardinality({i \in 1..Len(a) : NetGrossColumn(a, cutoff_value)[i] = 1})
NonNetSamples(a, cutoff_value) ==
    Cardinality({i \in 1..Len(a) : NetGrossColumn(a, cutoff_value)[i] = 0})

\* C22: for every log with at least one classified sample,
\* calculate_net_to_gross(method='linear', column, cutoff) returns
\* net / (net + non_net); a log whose samples are all net returns 1 and one
\* whose samples are all non-net returns 0.
NetToGrossQuotient ==
    (net_to_gross # NoObject
       /\ NetSamples(gr, cutoff) + NonNetSamples(gr, cutoff) >= 1) =>
        /\ net_to_gross[1].outcome = "ok"
        /\ net_to_gross[1].num * (NetSamples(gr, cutoff) + NonNetSamples(gr, cutoff))
              = NetSamples(gr, cutoff) * net_to_gross[1].den

\* The package an operation imports, and whether the last call handed it
\* arguments and an object state that pass every check the operation makes
\* apart from the import
NeededPackage(op) ==
    CASE op = "add_deviation" -> "wellpathpy"
      [] op = "add_well_logs" -> "lasio"
      [] OTHER -> "pyvista"
PassesOtherChecks ==
    CASE result.op = "add_deviation" ->
            borehole.has_properties /\ result.ctor.step.t = "int"
                /\ result.ctor.md_column = "MD"
      [] result.op = "add_well_logs" ->
            borehole.has_properties /\ result.arg.t = "str" /\ result.arg.s \in LasPaths
      [] result.op = "get_borehole_tube" ->
            result.relative \/ ~IsNone(deviation[1].easting)
      [] result.op = "plot_well_log_along_path" ->
            deviation # NoObject /\ (result.relative \/ ~IsNone(deviation[1].easting))
      [] result.op = "polyline_from_points" -> result.arg.t = "ndarray"
      [] result.op = "get_points_along_spline" -> TRUE
      [] OTHER -> FALSE

\* C23: when the optional package an operation needs is not installed, the
\* operation raises ModuleNotFoundError: plot_well_log_along_path,
\* get_borehole_tube, polyline_from_points and get_points_along_spline for
\* pyvista, the Deviation constructor for wellpathpy, the LASLogs
\* constructor for lasio.
MissingPackageRaises ==
    (PassesOtherChecks /\ NeededPackage(result.op) \notin installed) =>
        result.outcome = "ModuleNotFoundError"

\* C24: on a Deviation built with add_origin=False on a borehole in
\* 'EPSG:4326', add_origin_to_desurveying is rejected with ValueError and
\* changes nothing while the borehole's CRS is 'EPSG:4326', and succeeds
\* once update_value(attribute='crs', ...) or update_value(attribute=
\* 'location', ..., crs=...) has made the CRS a projected one; changed back,
\* it is rejected again.
RemedyAndRetry ==
    [][(deviation # NoObject /\ result'.op = "add_origin_to_desurveying") =>
          IF EqualsEPSG4326(borehole.crs)
          THEN result'.outcome = "ValueError" /\ UNCHANGED boreholeVars
          ELSE result'.outcome = "ok" /\ ~IsNone(deviation'[1].northing)]_vars

\* C24 witness: the Deviation was made in 'EPSG:4326', has been anchored
\* after a change of CRS, the CRS is 'EPSG:4326' again and the last
\* anchoring was rejected
RemedyAndRetryWitness ==
    /\ deviation # NoObject
    /\ ~built[1].add_origin
    /\ ~IsNone(deviation[1].northing)
    /\ EqualsEPSG4326(borehole.crs)
    /\ result.op = "add_origin_to_desurveying"
    /\ result.outcome = "ValueError"

\* C25: a call to update_value or init_properties that raises leaves the
\* borehole exactly as before the call: attributes, has_ flags, df,
\* properties and the Deviation with its crs are unchanged.
RaisingCallChangesNothing ==
    [][(result'.op \in {"update_value", "init_properties"} /\ result'.outcome # "ok")
          => UNCHANGED boreholeVars]_vars

\* C26: at every state reachable through init_properties, add_deviation and
\* update_value, calls that raise included, a borehole that has a Deviation
\* has deviation.crs equal to its own crs.
DeviationCRSFollowsBorehole ==
    deviation # NoObject => deviation[1].crs = borehole.crs

\* The value of the row of table with the given label (the first such row)
Loc(table, label) ==
    table.rows[CHOOSE i \in 1..Len(table.rows) :
                  /\ table.rows[i].label = label
                  /\ \A j \in 1..(i - 1) : table.rows[j].label # label].value

\* C29: at every state after a successful init_properties and any update_value
\* calls, location is None exactly when x and y are None, otherwise it is
\* the Point (x, y), and the rows 'Location', 'X' and 'Y' of df hold the
\* same values.
LocationConsistent ==
    borehole.has_properties =>
        /\ IsNone(borehole.location) <=> (IsNone(borehole.x) /\ IsNone(borehole.y))
        /\ ~IsNone(borehole.location) =>
              /\ borehole.x.t = "int" /\ borehole.y.t = "int"
              /\ borehole.location = PyValue("Point", 0, "", <<borehole.x.i, borehole.y.i>>)
        /\ Loc(df, "Location") = borehole.location
        /\ Loc(df, "X") = borehole.x
        /\ Loc(df, "Y") = borehole.y

\* The components of a borehole, the row create_df makes for each, whether
\* the attribute holds an object and the has_ flag
Components == {"deviation", "logs", "well_tops", "litholog", "well_design"}
ComponentRow(X) ==
    CASE X = "deviation" -> "Well Deviation"
      [] X = "logs" -> "Well Logs"
      [] X = "well_tops" -> "Well Tops"
      [] X = "litholog" -> "Litholog"
      [] X = "well_design" -> "Well Design"
ComponentSet(X) ==
    IF X = "deviation" THEN deviation # NoObject ELSE ~IsNone(borehole[X])
HasComponent(X) ==
    CASE X = "deviation" -> borehole.has_deviation
      [] X = "logs" -> borehole.has_logs
      [] X = "well_tops" -> borehole.has_well_tops
      [] X = "litholog" -> borehole.has_litholog
      [] X = "well_design" -> borehole.has_well_design

\* C27: at every state after a successful init_properties, for each of the
\* components deviation, logs, well_tops, litholog and well_design, the
\* attribute is not None exactly when its has_ flag is True, exactly when the
\* component's row of df is True, exactly when its row of properties is True.
ComponentsAgree ==
    borehole.has_properties =>
        \A X \in Components :
            /\ ComponentSet(X) <=> HasComponent(X)
            /\ HasComponent(X) <=> (Loc(df, ComponentRow(X)) = PyBool(TRUE))
            /\ HasComponent(X) <=> (Loc(properties, ComponentRow(X)) = PyBool(TRUE))

\* C28: after any sequence of init_properties, add_deviation and
\* add_origin_to_desurveying every index label of df occurs exactly once; the
\* rows 'Measured Depth' and 'True Vertical Depth' of create_df stay single.
LabelsUnique ==
    /\ \A i, j \in 1..Len(df.rows) : df.rows[i].label = df.rows[j].label => i = j
    /\ borehole.has_properties =>
          /\ Cardinality(RowsLabelled("Measured Depth")) = 1
          /\ Cardinality(RowsLabelled("True Vertical Depth")) = 1

\* C30: after any sequence of Borehole(...) calls, some failing the type check
\* of the name, Borehole.boreholes holds the objects whose construction
\* returned, in the order they were made, and no object whose construction
\* raised.
RegistryHoldsConstructed ==
    \A i \in 1..Len(boreholes) : boreholes[i].constructed

\* C10: the constructor resamples at exactly 0, step, ..., k*step with
\* k = floor(floor(L)/step) for a last measured depth L: the depths start at
\* 0, increase strictly, never exceed L and end above L - step.
DepthGrid ==
    deviation # NoObject =>
        LET survey == built[1].survey
            step == built[1].step
            L == survey[Len(survey)].md
            g == ResampleDepths(survey, step)
            k == (L \div DepthScale) \div step
        IN /\ Len(g) = k + 1
           /\ Len(deviation[1].tvd) = k + 1
           /\ g[1] = 0
           /\ \A j \in 1..Len(g) : g[j] = (j - 1) * step
           /\ \A j \in 1..(Len(g) - 1) : g[j] < g[j + 1]
           /\ g[Len(g)] * DepthScale <= L
           /\ g[Len(g)] * DepthScale > L - step * DepthScale

\* C10 witness: a Deviation of a survey ending at a fractional depth, resampled
\* at a step above 1 into more than one sample
DepthGridWitness ==
    /\ deviation # NoObject
    /\ built[1].survey[Len(built[1].survey)].md % DepthScale # 0
    /\ built[1].step > 1
    /\ Len(deviation[1].tvd) > 1

====
